---- MODULE Spec2Model ----
(***************************************************************************)
(* Model of backend/main.py: the GET /quote handler (get_quote), a         *)
(* cache-aside lookup of a quote by date over a Redis hash store and the   *)
(* ZenQuotes HTTP API.                                                     *)
(*                                                                         *)
(* Strings are sequences of one-character strings, so that concatenation   *)
(* (rkey), trimming (str.strip) and parsing (datetime.fromisoformat) are   *)
(* computed rather than assumed.                                           *)
(***************************************************************************)
EXTENDS Integers, Sequences, FiniteSets, TLC

(***************************************************************************)
(* Bounds of the model.                                                    *)
(***************************************************************************)
\* number of GET /quote requests in a run
NumReqs == 2
\* seconds the clock can advance
MaxTicks == 1

Reqs == 1..NumReqs

(***************************************************************************)
(* Python values.                                                          *)
(***************************************************************************)
\* Python's None, where a string is expected (no string has this element)
None == <<"None">>

Digits == <<"0", "1", "2", "3", "4", "5", "6", "7", "8", "9">>

IsDigit(c) == \E i \in 1..10 : Digits[i] = c

DigitVal(c) == (CHOOSE i \in 1..10 : Digits[i] = c) - 1

\* the characters str.strip() removes
Whitespace == {" ", "\t", "\n"}

RECURSIVE lstrip(_)
lstrip(s) ==
    IF s = <<>> THEN <<>>
    ELSE IF s[1] \in Whitespace THEN lstrip(Tail(s)) ELSE s

RECURSIVE rstrip(_)
rstrip(s) ==
    IF s = <<>> THEN <<>>
    ELSE IF s[Len(s)] \in Whitespace THEN rstrip(SubSeq(s, 1, Len(s) - 1)) ELSE s

\* str.strip()
strip(s) == rstrip(lstrip(s))

\* two decimal digits, zero padded
Pad2(n) == <<Digits[(n \div 10) + 1], Digits[(n % 10) + 1]>>

\* four decimal digits, zero padded
Pad4(n) == Pad2(n \div 100) \o Pad2(n % 100)

(***************************************************************************)
(* Calendar dates: <<year, month, day>>.                                   *)
(***************************************************************************)
IsLeap(y) == (y % 4 = 0) /\ ((y % 100 # 0) \/ (y % 400 = 0))

DaysInMonth(y, m) ==
    IF m = 2 THEN (IF IsLeap(y) THEN 29 ELSE 28)
    ELSE IF m \in {4, 6, 9, 11} THEN 30 ELSE 31

NextDay(d) ==
    IF d[3] < DaysInMonth(d[1], d[2]) THEN <<d[1], d[2], d[3] + 1>>
    ELSE IF d[2] < 12 THEN <<d[1], d[2] + 1, 1>>
    ELSE <<d[1] + 1, 1, 1>>

RECURSIVE AddDays(_, _)
AddDays(d, n) == IF n = 0 THEN d ELSE AddDays(NextDay(d), n - 1)

\* the UTC date and the second of the day when the run starts: 23:59:59
StartDate == <<2023, 12, 31>>

SecsPerDay == 24 * 60 * 60

StartSecs == SecsPerDay - 1

\* the two-digit number at positions i, i+1 of s, or -1
Num2(s, i) ==
    IF i + 1 <= Len(s) /\ IsDigit(s[i]) /\ IsDigit(s[i + 1])
    THEN 10 * DigitVal(s[i]) + DigitVal(s[i + 1])
    ELSE -1

\* the date part "YYYY-MM-DD" at the head of s: a date, or <<>> when it does not parse
ParseDatePart(s) ==
    IF Len(s) < 10 THEN <<>>
    ELSE IF ~(s[5] = "-" /\ s[8] = "-") THEN <<>>
    ELSE LET yh == Num2(s, 1)
             yl == Num2(s, 3)
             m  == Num2(s, 6)
             d  == Num2(s, 9)
             y  == 100 * yh + yl
         IN  IF yh < 0 \/ yl < 0 \/ m < 0 \/ d < 0 THEN <<>>
             ELSE IF y < 1 \/ m < 1 \/ m > 12 THEN <<>>
             ELSE IF d < 1 \/ d > DaysInMonth(y, m) THEN <<>>
             ELSE <<y, m, d>>

\* the time part "HH", "HH:MM" or "HH:MM:SS"
TimePartOk(t) ==
    /\ Len(t) \in {2, 5, 8}
    /\ Num2(t, 1) \in 0..23
    /\ Len(t) >= 5 => (t[3] = ":" /\ Num2(t, 4) \in 0..59)
    /\ Len(t) >= 8 => (t[6] = ":" /\ Num2(t, 7) \in 0..59)

\* datetime.fromisoformat(date).date(), or <<>> when fromisoformat raises.
\* The forms every Python version with fromisoformat accepts:
\* YYYY-MM-DD, optionally one separator character and HH[:MM[:SS]].
fromisoformat(s) ==
    LET d == ParseDatePart(s)
    IN  IF d = <<>> THEN <<>>
        ELSE IF Len(s) = 10 THEN d
        ELSE IF Len(s) = 11 THEN <<>>
        ELSE IF TimePartOk(SubSeq(s, 12, Len(s))) THEN d
        ELSE <<>>

\* date.isoformat()
DateIso(d) == Pad4(d[1]) \o <<"-">> \o Pad2(d[2]) \o <<"-">> \o Pad2(d[3])

(***************************************************************************)
(* JSON values, as json.loads returns them.                                *)
(***************************************************************************)
JNull == <<"null">>

JNum(n) == <<"num", n>>

JStr(s) == <<"str", s>>

\* an array: the sequence of its elements
JArr(a) == <<"arr", a>>

\* an object: the sequence of its <<key, value>> members
JObj(o) == <<"obj", o>>

JType(v) == v[1]

\* Python truthiness of a JSON value
Truthy(v) ==
    CASE JType(v) = "null" -> FALSE
      [] JType(v) = "num"  -> v[2] # 0
      [] JType(v) \in {"str", "arr", "obj"} -> v[2] # <<>>

\* dict.get(k): the value, or None
DictGet(o, k) ==
    IF \E i \in 1..Len(o) : o[i][1] = k
    THEN o[CHOOSE i \in 1..Len(o) : o[i][1] = k][2]
    ELSE JNull

\* Python's `a or b`
PyOr(a, b) == IF Truthy(a) THEN a ELSE b

(***************************************************************************)
(* Outcomes of a call: a returned value, an HTTPException, or any other    *)
(* exception (which FastAPI answers with 500 Internal Server Error).       *)
(***************************************************************************)
Returned(v) == [kind |-> "return", value |-> v]

HTTPException(status_code, detail) ==
    [kind |-> "HTTPException", detail |-> detail, status |-> status_code]

Raised(exc) == [kind |-> "raise", exc |-> exc]

(***************************************************************************)
(* main.py                                                                 *)
(***************************************************************************)
\* API_TIMEOUT = 15, seconds
API_TIMEOUT == 15

KeyPrefix == <<"q", "u", "o", "t", "e", ":">>

\* rkey, keyed by the calendar date the string denotes
rkey_normalised(date_str) == KeyPrefix \o DateIso(fromisoformat(date_str))

\* rkey(date_str): f"quote:{date_str}"
rkey(date_str) == KeyPrefix \o date_str

\* format_date_or_400, going on with whatever the parse gave
format_date_or_400_lenient(date) == Returned(fromisoformat(date))

\* format_date_or_400(date): the parsed date, or HTTPException 400
format_date_or_400(date) ==
    LET dt == fromisoformat(date)
    IN  IF dt = <<>>
        THEN HTTPException(400, "Invalid date format, use YYYY-MM-DD")
        ELSE Returned(dt)

\* the endpoint fetch_zenquotes asks
Url(is_today) == IF is_today THEN "today" ELSE "random"

\* (item.get(k) or default).strip(): the string, or None when .strip() or
\* .get() raises AttributeError
StripField(item, k, default) ==
    IF JType(item) # "obj" THEN None
    ELSE LET v == PyOr(DictGet(item[2], k), JStr(default))
         IN  IF JType(v) = "str" THEN strip(v[2]) ELSE None

\* fetch_zenquotes, not looking at the status
fetch_zenquotes_any_status(resp) ==
    IF resp.latency > API_TIMEOUT THEN Raised("TimeoutError")
    ELSE IF ~resp.body.json THEN HTTPException(502, "ZenQuotes non-JSON")
    ELSE LET data == resp.body.data
         IN  IF JType(data) # "arr" \/ ~Truthy(data)
             THEN HTTPException(502, "Unexpected ZenQuotes payload")
             ELSE LET item   == data[2][1]
                      text   == StripField(item, "q", <<>>)
                      author == StripField(item, "a", <<"U", "n", "k", "n", "o", "w", "n">>)
                  IN  IF text = None \/ author = None
                      THEN Raised("AttributeError")
                      ELSE Returned([text |-> text, author |-> author])

\* fetch_zenquotes, answering a default quote when the status is not 200
fetch_zenquotes_fallback(resp) ==
    IF resp.latency > API_TIMEOUT THEN Raised("TimeoutError")
    ELSE IF resp.status # 200
         THEN Returned([text |-> <<"-">>, author |-> <<"U", "n", "k", "n", "o", "w", "n">>])
    ELSE IF ~resp.body.json THEN HTTPException(502, "ZenQuotes non-JSON")
    ELSE LET data == resp.body.data
         IN  IF JType(data) # "arr" \/ ~Truthy(data)
             THEN HTTPException(502, "Unexpected ZenQuotes payload")
             ELSE LET item   == data[2][1]
                      text   == StripField(item, "q", <<>>)
                      author == StripField(item, "a", <<"U", "n", "k", "n", "o", "w", "n">>)
                  IN  IF text = None \/ author = None
                      THEN Raised("AttributeError")
                      ELSE Returned([text |-> text, author |-> author])

\* fetch_zenquotes, given what the provider does with the request: resp.latency
\* (seconds until the answer is complete), resp.status and resp.body, a body
\* being [json |-> FALSE] or [json |-> TRUE, data |-> a JSON value].
\* s.get(url, timeout=API_TIMEOUT) raises asyncio.TimeoutError, which nothing
\* catches, when the answer takes longer than API_TIMEOUT.
fetch_zenquotes(resp) ==
    IF resp.latency > API_TIMEOUT THEN Raised("TimeoutError")
    ELSE IF resp.status # 200 THEN HTTPException(502, "ZenQuotes status")
    ELSE IF ~resp.body.json THEN HTTPException(502, "ZenQuotes non-JSON")
    ELSE LET data == resp.body.data
         IN  IF JType(data) # "arr" \/ ~Truthy(data)
             THEN HTTPException(502, "Unexpected ZenQuotes payload")
             ELSE LET item   == data[2][1]
                      text   == StripField(item, "q", <<>>)
                      author == StripField(item, "a", <<"U", "n", "k", "n", "o", "w", "n">>)
                  IN  IF text = None \/ author = None
                      THEN Raised("AttributeError")
                      ELSE Returned([text |-> text, author |-> author])

Zenquotes == <<"z", "e", "n", "q", "u", "o", "t", "e", "s">>

\* IsHit, asking for a stored source as well
IsHit_needs_source(cached) ==
    /\ DOMAIN cached # {}
    /\ "text" \in DOMAIN cached /\ cached["text"] # <<>>
    /\ "author" \in DOMAIN cached /\ cached["author"] # <<>>
    /\ "source" \in DOMAIN cached /\ cached["source"] # <<>>

\* IsHit, looking at the text only
IsHit_text_only(cached) ==
    /\ DOMAIN cached # {}
    /\ "text" \in DOMAIN cached /\ cached["text"] # <<>>

\* line 97: cached and cached.get("text") and cached.get("author")
IsHit(cached) ==
    /\ DOMAIN cached # {}
    /\ "text" \in DOMAIN cached /\ cached["text"] # <<>>
    /\ "author" \in DOMAIN cached /\ cached["author"] # <<>>

\* lines 98-104: the record returned on a hit
HitRecord(date, cached) ==
    [date      |-> date,
     text      |-> cached["text"],
     author    |-> cached["author"],
     source    |-> IF "source" \in DOMAIN cached THEN cached["source"] ELSE Zenquotes,
     stored_at |-> IF "stored_at" \in DOMAIN cached THEN cached["stored_at"] ELSE None]

\* A reply of the store to a command: [ok |-> TRUE, value |-> v], or
\* [ok |-> FALSE] when the client raises.
StoreOk(v) == [ok |-> TRUE, answer |-> v]

StoreError == [ok |-> FALSE]

Continue == [kind |-> "continue"]

\* TryCache, refreshing from the provider whatever the store holds
TryCache_always_fetch(date, reply) == Continue

\* lines 95-107: the try block around HGETALL; a read error is printed and
\* the handler goes on to fetch
TryCache(date, reply) ==
    IF ~reply.ok THEN Continue
    ELSE IF IsHit(reply.answer) THEN Returned(HitRecord(date, reply.answer))
    ELSE Continue

\* IsToday, with today's date taken when the process started
IsToday_at_start(dt, utc_today) == dt = StartDate

\* line 110: dt.date() == datetime.now(timezone.utc).date()
IsToday(dt, utc_today) == dt = utc_today

\* lines 113-119
Payload(date, q, now_iso) ==
    [date      |-> date,
     text      |-> q.text,
     author    |-> q.author,
     source    |-> Zenquotes,
     stored_at |-> now_iso]

\* HashFields, without the timestamp
HashFields_no_stamp(payload) ==
    [text      |-> payload.text,
     author    |-> payload.author,
     source    |-> payload.source]

\* lines 123-128: the fields HSET is given
HashFields(payload) ==
    [text      |-> payload.text,
     author    |-> payload.author,
     source    |-> payload.source,
     stored_at |-> payload.stored_at]

\* TryStore, letting a write error escape
TryStore_raising(payload, reply) ==
    IF reply.ok THEN Returned(payload) ELSE Raised("Exception")

\* lines 122-132: the try block around HSET; a write error is printed and
\* the payload is returned all the same
TryStore(payload, reply) ==
    IF reply.ok THEN Returned(payload) ELSE Returned(payload)

(***************************************************************************)
(* The Redis hash store.                                                   *)
(***************************************************************************)
EmptyMap == <<>>

\* HGETALL key
hgetall(store, key) == IF key \in DOMAIN store THEN store[key] ELSE EmptyMap

\* hset, setting only the fields the hash does not hold yet (HSETNX)
hset_first_wins(store, key, values) ==
    LET old == hgetall(store, key)
        new == [f \in DOMAIN old \cup DOMAIN values |->
                   IF f \in DOMAIN old THEN old[f] ELSE values[f]]
    IN  [k \in DOMAIN store \cup {key} |-> IF k = key THEN new ELSE store[k]]

\* HSET key field value [field value ...]: sets the given fields of the hash
hset(store, key, values) ==
    LET old == hgetall(store, key)
        new == [f \in DOMAIN old \cup DOMAIN values |->
                   IF f \in DOMAIN values THEN values[f] ELSE old[f]]
    IN  [k \in DOMAIN store \cup {key} |-> IF k = key THEN new ELSE store[k]]

(***************************************************************************)
(* What FastAPI answers for an outcome of the handler.                     *)
(***************************************************************************)
Respond(outcome) ==
    CASE outcome.kind = "return" -> [status |-> 200, body |-> outcome.value]
      [] outcome.kind = "HTTPException" ->
            [status |-> outcome.status, body |-> [detail |-> outcome.detail]]
      [] outcome.kind = "raise" ->
            [status |-> 500, body |-> [detail |-> "Internal Server Error"]]

(***************************************************************************)
(* Inputs: the date strings clients send, what the provider answers, and   *)
(* what the store holds when the process starts.                           *)
(***************************************************************************)
Date1 == <<"2", "0", "2", "4", "-", "0", "1", "-", "0", "1">>

\* "2024-01-01T00:00": the calendar date of Date1, written differently
Date1T == Date1 \o <<"T", "0", "0", ":", "0", "0">>

\* "2024-02-30"
BadDay == <<"2", "0", "2", "4", "-", "0", "2", "-", "3", "0">>

NotADate == <<"n", "o", "t", "-", "a", "-", "d", "a", "t", "e">>

DateStrs == {Date1, Date1T, BadDay, NotADate, <<>>}

Carpe == <<"C", "a", "r", "p", "e">>

Horace == <<"H", "o", "r">>

BeKind == <<"B", "e">>

Anon == <<"A", "n">>

Quote(q, a) == JObj(<< <<"q", JStr(q)>>, <<"a", JStr(a)>> >>)

Body(data) == [json |-> TRUE, data |-> data]

NonJsonBody == [json |-> FALSE]

Reply(latency, status, body) == [status |-> status, latency |-> latency, body |-> body]

ProviderReplies ==
    { Reply(1, 200, Body(JArr(<<Quote(Carpe, Horace)>>))),
      Reply(1, 200, Body(JArr(<<Quote(<<" ">> \o BeKind \o <<" ">>, Anon \o <<"\n">>),
                                Quote(Carpe, Horace)>>))),
      Reply(1, 200, Body(JArr(<<JObj(<< <<"a", JStr(Horace)>> >>)>>))),
      Reply(1, 200, Body(JArr(<<Quote(<<" ", " ">>, Horace)>>))),
      Reply(1, 200, Body(JArr(<<JObj(<< <<"q", JStr(Carpe)>> >>)>>))),
      Reply(1, 200, Body(JArr(<<Quote(Carpe, <<" ">>)>>))),
      Reply(1, 200, Body(JArr(<<JNull>>))),
      Reply(1, 200, Body(JArr(<<JObj(<< <<"q", JNum(5)>>, <<"a", JStr(Horace)>> >>)>>))),
      Reply(1, 200, Body(JArr(<<>>))),
      Reply(1, 200, Body(Quote(Carpe, Horace))),
      Reply(1, 200, NonJsonBody),
      Reply(1, 500, Body(JArr(<<Quote(Carpe, Horace)>>))),
      Reply(API_TIMEOUT + 1, 200, Body(JArr(<<Quote(Carpe, Horace)>>))) }

\* "2023-12-30T00:00:00+00:00"
OldStamp ==
    <<"2", "0", "2", "3", "-", "1", "2", "-", "3", "0", "T", "0", "0", ":", "0", "0",
      ":", "0", "0", "+", "0", "0", ":", "0", "0">>

\* What the hash under rkey(Date1) holds at the start, when there is one.
StoredMaps ==
    { [text |-> BeKind, author |-> Anon],
      [text |-> BeKind, author |-> Anon, source |-> <<"o">>, stored_at |-> OldStamp],
      [text |-> <<>>, author |-> Anon, source |-> Zenquotes, stored_at |-> OldStamp],
      [author |-> Anon, source |-> Zenquotes],
      [text |-> BeKind, author |-> <<>>, source |-> <<>>],
      [text |-> BeKind, author |-> Anon, source |-> <<>>] }

EmptyStore == <<>>

InitialStores == {EmptyStore} \cup {hset(EmptyStore, rkey(Date1), m) : m \in StoredMaps}

(***************************************************************************)
(* State.                                                                  *)
(***************************************************************************)
VARIABLES
    cache,    \* the Redis store: key -> hash (field -> string)
    clock,    \* UTC time: seconds since StartDate, 00:00:00
    pc,       \* per request: "idle", "read", "fetch", "store", "done"
    date,     \* per request: the date query parameter
    dt,       \* per request: the parsed date
    q,        \* per request: what fetch_zenquotes returned
    result,   \* per request: the HTTP response
    obs,      \* per request: what was observed of its run (history)
    cache0    \* the store at the start (history)

vars == <<cache, clock, pc, date, dt, q, result, obs, cache0>>

NoQ == [text |-> <<>>, author |-> <<>>]

NoResult == [status |-> 0, body |-> [detail |-> ""]]

NoReply == Reply(0, 0, NonJsonBody)

NoObs ==
    [answer   |-> NoReply,    \* the provider's answer
     reads    |-> 0,          \* HGETALL commands sent
     fetches  |-> 0,          \* provider calls made
     writes   |-> 0,          \* HSET commands sent
     readErr  |-> FALSE,      \* the HGETALL raised
     writeErr |-> FALSE,      \* the HSET raised
     url      |-> "none",     \* the endpoint asked
     before   |-> {}]         \* the requests that had finished when this one arrived

\* datetime.now(timezone.utc).date()
UtcDate == AddDays(StartDate, clock \div SecsPerDay)

\* time.isoformat(), at whole seconds
TimeIso(secs) ==
    Pad2(secs \div 3600) \o <<":">> \o Pad2((secs \div 60) % 60) \o <<":">> \o Pad2(secs % 60)

\* to_iso_now(): datetime.now(timezone.utc).isoformat(), at whole seconds
to_iso_now ==
    DateIso(UtcDate) \o <<"T">> \o TimeIso(clock % SecsPerDay)
        \o <<"+", "0", "0", ":", "0", "0">>

Init ==
    /\ cache \in InitialStores
    /\ cache0 = cache
    /\ clock = StartSecs
    /\ pc = [r \in Reqs |-> "idle"]
    /\ date = [r \in Reqs |-> <<>>]
    /\ dt = [r \in Reqs |-> <<>>]
    /\ q = [r \in Reqs |-> NoQ]
    /\ result = [r \in Reqs |-> NoResult]
    /\ obs = [r \in Reqs |-> NoObs]

(***************************************************************************)
(* GET /quote?date=...                                                     *)
(***************************************************************************)
\* The handler ends with the given outcome.
Finish(r, outcome) ==
    /\ pc' = [pc EXCEPT ![r] = "done"]
    /\ result' = [result EXCEPT ![r] = Respond(outcome)]

\* lines 91-92: a request arrives; its date is parsed. Requests take the
\* slots in order.
Request(r, date_str) ==
    /\ pc[r] = "idle"
    /\ r > 1 => pc[r - 1] # "idle"
    /\ date' = [date EXCEPT ![r] = date_str]
    /\ obs' = [obs EXCEPT ![r].before = {o \in Reqs : pc[o] = "done"}]
    /\ LET parsed == format_date_or_400(date_str)
       IN  IF parsed.kind = "return"
           THEN /\ dt' = [dt EXCEPT ![r] = parsed.value]
                /\ pc' = [pc EXCEPT ![r] = "read"]
                /\ UNCHANGED result
           ELSE /\ Finish(r, parsed)
                /\ UNCHANGED dt
    /\ UNCHANGED <<cache, clock, q, cache0>>

\* lines 94-107: HGETALL, answered by the store or failing
CacheRead(r, ok) ==
    /\ pc[r] = "read"
    /\ LET key     == rkey(date[r])
           reply   == IF ok THEN StoreOk(hgetall(cache, key)) ELSE StoreError
           outcome == TryCache(date[r], reply)
       IN  /\ obs' = [obs EXCEPT ![r].reads = @ + 1,
                                 ![r].readErr = ~ok]
           /\ IF outcome.kind = "continue"
              THEN /\ pc' = [pc EXCEPT ![r] = "fetch"]
                   /\ UNCHANGED result
              ELSE Finish(r, outcome)
    /\ UNCHANGED <<cache, clock, date, dt, q, cache0>>

\* Fetch, asking the provider again after a failed call
Fetch_retrying(r, resp) ==
    /\ pc[r] = "fetch"
    /\ LET is_today == IsToday(dt[r], UtcDate)
           outcome  == fetch_zenquotes(resp)
       IN  /\ obs' = [obs EXCEPT ![r].fetches = @ + 1,
                                 ![r].url = Url(is_today),
                                 ![r].answer = resp]
           /\ IF outcome.kind = "return"
              THEN /\ q' = [q EXCEPT ![r] = outcome.value]
                   /\ pc' = [pc EXCEPT ![r] = "store"]
                   /\ UNCHANGED result
              ELSE UNCHANGED <<q, pc, result>>
    /\ UNCHANGED <<cache, clock, date, dt, cache0>>

\* lines 109-111: is_today, then fetch_zenquotes and the provider's answer
Fetch(r, resp) ==
    /\ pc[r] = "fetch"
    /\ LET is_today == IsToday(dt[r], UtcDate)
           outcome  == fetch_zenquotes(resp)
       IN  /\ obs' = [obs EXCEPT ![r].fetches = @ + 1,
                                 ![r].url = Url(is_today),
                                 ![r].answer = resp]
           /\ IF outcome.kind = "return"
              THEN /\ q' = [q EXCEPT ![r] = outcome.value]
                   /\ pc' = [pc EXCEPT ![r] = "store"]
                   /\ UNCHANGED result
              ELSE /\ Finish(r, outcome)
                   /\ UNCHANGED q
    /\ UNCHANGED <<cache, clock, date, dt, cache0>>

\* lines 113-132: the payload, HSET (answered by the store or failing), return
Store(r, ok) ==
    /\ pc[r] = "store"
    /\ LET key     == rkey(date[r])
           payload == Payload(date[r], q[r], to_iso_now)
           reply   == IF ok THEN StoreOk(1) ELSE StoreError
       IN  /\ cache' = IF ok THEN hset(cache, key, HashFields(payload)) ELSE cache
           /\ obs' = [obs EXCEPT ![r].writes = @ + 1, ![r].writeErr = ~ok]
           /\ Finish(r, TryStore(payload, reply))
    /\ q' = [q EXCEPT ![r] = NoQ]
    /\ UNCHANGED <<clock, date, dt, cache0>>

\* a second passes
Tick ==
    /\ clock < StartSecs + MaxTicks
    /\ clock' = clock + 1
    /\ UNCHANGED <<cache, pc, date, dt, q, result, obs, cache0>>

Next ==
    \/ \E r \in Reqs, d \in DateStrs : Request(r, d)
    \/ \E r \in Reqs, ok \in BOOLEAN : CacheRead(r, ok)
    \/ \E r \in Reqs, resp \in ProviderReplies : Fetch(r, resp)
    \/ \E r \in Reqs, ok \in BOOLEAN : Store(r, ok)
    \/ Tick

Spec == Init /\ [][Next]_vars

(***************************************************************************)
(* Vocabulary of the properties.                                           *)
(***************************************************************************)
Done(r) == pc[r] = "done"

\* the request read the store and the store answered
ReadWorked(r) == obs[r].reads = 1 /\ ~obs[r].readErr

\* the request wrote the store and the store answered
WriteWorked(r) == obs[r].writes = 1 /\ ~obs[r].writeErr

\* a Quote Record that counts as a hit: text and author present and non-empty
ValidRecord(m) ==
    /\ "text" \in DOMAIN m /\ m["text"] # <<>>
    /\ "author" \in DOMAIN m /\ m["author"] # <<>>

\* the provider answered in time with status 200 and a JSON array whose first
\* element is an object
Answered(resp) ==
    /\ resp.latency <= API_TIMEOUT
    /\ resp.status = 200
    /\ resp.body.json
    /\ JType(resp.body.data) = "arr"
    /\ resp.body.data[2] # <<>>
    /\ JType(resp.body.data[2][1]) = "obj"

\* the string field k of the first element of the answer, or None
RawField(resp, k) ==
    LET v == DictGet(resp.body.data[2][1][2], k)
    IN  IF JType(v) = "str" THEN v[2] ELSE None

\* the requests never overlap: of two that have arrived, one had finished
\* when the other arrived
Sequential ==
    \A a, b \in Reqs :
        (a # b /\ pc[a] # "idle" /\ pc[b] # "idle")
            => (a \in obs[b].before \/ b \in obs[a].before)

\* no command to the store has failed
StoreWorking == \A r \in Reqs : ~obs[r].readErr /\ ~obs[r].writeErr

(***************************************************************************)
(* C1: a failing store read, a failing store write, or both, never fail    *)
(* the request: when the provider call succeeds, the response is 200 with  *)
(* the record built from the provider's answer.                            *)
(***************************************************************************)
C1_CacheFailuresAbsorbed ==
    \A r \in Reqs :
        (/\ Done(r)
         /\ obs[r].readErr \/ obs[r].writeErr
         /\ obs[r].fetches = 1
         /\ fetch_zenquotes(obs[r].answer).kind = "return")
        => LET fetched == fetch_zenquotes(obs[r].answer).value
           IN  /\ result[r].status = 200
               /\ result[r].body.date = date[r]
               /\ result[r].body.text = fetched.text
               /\ result[r].body.author = fetched.author
               /\ result[r].body.source = Zenquotes

\* a request whose read and write both failed has been answered 200
C1_Witness ==
    \E r \in Reqs :
        /\ Done(r)
        /\ obs[r].readErr /\ obs[r].writeErr
        /\ result[r].status = 200

(***************************************************************************)
(* C2: a date string that does not parse is answered 400 at once, with no  *)
(* store read, no store write and no provider call.                        *)
(***************************************************************************)
C2_MalformedDateRejected ==
    \A r \in Reqs :
        (pc[r] # "idle" /\ fromisoformat(date[r]) = <<>>)
        => /\ Done(r)
           /\ result[r].status = 400
           /\ obs[r].reads = 0 /\ obs[r].fetches = 0 /\ obs[r].writes = 0

\* "", "not-a-date" and "2024-02-30" have all been sent in some run
C2_Witness ==
    \E r \in Reqs :
        /\ Done(r)
        /\ date[r] \in {<<>>, NotADate, BadDay}
        /\ result[r].status = 400

(***************************************************************************)
(* C3: miss-then-hit. Requests one after the other, a working store,       *)
(* nothing stored under the key, and the provider answering a quote q by   *)
(* a. As stated: the first response is {date, text: q, author: a, source:  *)
(* "zenquotes", stored_at}, and a later request for the same date gets the *)
(* same record without a provider call.                                    *)
(***************************************************************************)
\* request a found nothing under its key, fetched and stored, the store working
FirstMiss(a) ==
    /\ Done(a)
    /\ rkey(date[a]) \notin DOMAIN cache0
    /\ \A o \in obs[a].before : date[o] # date[a]
    /\ ReadWorked(a)
    /\ obs[a].fetches = 1
    /\ Answered(obs[a].answer)

\* request b, for the same date, arrived after a had finished
LaterSame(a, b) ==
    /\ a \in obs[b].before
    /\ date[b] = date[a]
    /\ Done(b)

\* the original statement: text and author are the provider's q and a as sent
C3_AsStated ==
    (Sequential /\ StoreWorking) =>
    \A a \in Reqs :
        LET qraw == RawField(obs[a].answer, "q")
            araw == RawField(obs[a].answer, "a")
        IN  (/\ FirstMiss(a)
             /\ qraw # None /\ qraw # <<>>
             /\ araw # None /\ araw # <<>>)
            => /\ result[a].status = 200
               /\ result[a].body.date = date[a]
               /\ result[a].body.text = qraw
               /\ result[a].body.author = araw
               /\ result[a].body.source = Zenquotes
               /\ \A b \in Reqs :
                      LaterSame(a, b) => (result[b] = result[a] /\ obs[b].fetches = 0)

\* C3, amended: text and author are q and a trimmed, for q and a that are not
\* blank; the stored hash holds the returned fields
C3_MissThenHit ==
    (Sequential /\ StoreWorking) =>
    \A a \in Reqs :
        LET qraw == RawField(obs[a].answer, "q")
            araw == RawField(obs[a].answer, "a")
        IN  (/\ FirstMiss(a)
             /\ qraw # None /\ strip(qraw) # <<>>
             /\ araw # None /\ strip(araw) # <<>>)
            => /\ result[a].status = 200
               /\ result[a].body.date = date[a]
               /\ result[a].body.text = strip(qraw)
               /\ result[a].body.author = strip(araw)
               /\ result[a].body.source = Zenquotes
               /\ hgetall(cache, rkey(date[a])) = HashFields(result[a].body)
               /\ \A b \in Reqs :
                      LaterSame(a, b) => (result[b] = result[a] /\ obs[b].fetches = 0)

\* a miss answered with a padded quote, then a hit a second later
C3_Witness ==
    /\ Sequential /\ StoreWorking
    /\ FirstMiss(1) /\ LaterSame(1, 2)
    /\ RawField(obs[1].answer, "q") = <<" ">> \o BeKind \o <<" ">>
    /\ result[1].body.text = BeKind
    /\ result[2].status = 200
    /\ obs[2].fetches = 0
    /\ result[2].body.stored_at # to_iso_now

(***************************************************************************)
(* C4: on a cache hit (the read is answered and the hash has non-empty     *)
(* text and author) the request ends there: no provider call, no store     *)
(* write, the store unchanged.                                             *)
(***************************************************************************)
C4_HitLeavesAllAlone ==
    [][\A r \in Reqs :
          (/\ pc[r] = "read" /\ pc'[r] # "read"
           /\ ~obs'[r].readErr
           /\ ValidRecord(hgetall(cache, rkey(date[r]))))
          => /\ cache' = cache
             /\ pc'[r] = "done"
             /\ result'[r].status = 200
             /\ obs'[r].fetches = 0
             /\ obs'[r].writes = 0]_vars

\* a request served from the store
C4_Witness ==
    \E r \in Reqs :
        /\ Done(r) /\ ReadWorked(r)
        /\ result[r].status = 200
        /\ obs[r].fetches = 0 /\ obs[r].writes = 0
        /\ cache = cache0

(***************************************************************************)
(* C5: with a valid record stored under a date's key from the start and    *)
(* every read answered, all requests for that date get the identical       *)
(* record, made of the stored fields, and none calls the provider.         *)
(***************************************************************************)
C5_HitPathIdempotent ==
    \A d \in DateStrs :
        (/\ ValidRecord(hgetall(cache0, rkey(d)))
         /\ \A r \in Reqs : date[r] = d => ~obs[r].readErr)
        => \A a, b \in Reqs :
              (Done(a) /\ date[a] = d /\ Done(b) /\ date[b] = d)
              => /\ result[a] = result[b]
                 /\ result[a].status = 200
                 /\ result[a].body.text = cache0[rkey(d)]["text"]
                 /\ result[a].body.author = cache0[rkey(d)]["author"]
                 /\ obs[a].fetches = 0

\* two requests for the pre-populated date, a second apart, both answered
C5_Witness ==
    /\ ValidRecord(hgetall(cache0, rkey(Date1)))
    /\ \A r \in {1, 2} : Done(r) /\ date[r] = Date1 /\ ReadWorked(r)
    /\ 1 \in obs[2].before
    /\ result[1] = result[2]
    /\ clock > StartSecs

(***************************************************************************)
(* C6: validity. A request is served from the store exactly when the read  *)
(* is answered and the hash has text and author, both non-empty; in every  *)
(* other case it goes on to the provider.                                  *)
(***************************************************************************)
C6_ValidityRule ==
    [][\A r \in Reqs :
          (pc[r] = "read" /\ pc'[r] # "read")
          => LET m      == hgetall(cache, rkey(date[r]))
                 served == /\ pc'[r] = "done"
                           /\ result'[r].status = 200
             IN  /\ served <=> (~obs'[r].readErr /\ ValidRecord(m))
                 /\ ~served => (pc'[r] = "fetch" /\ obs'[r].fetches = 0)]_vars

\* a stored hash with empty text, read without error, and the provider called
C6_Witness ==
    /\ "text" \in DOMAIN hgetall(cache0, rkey(Date1))
    /\ cache0[rkey(Date1)]["text"] = <<>>
    /\ date[1] = Date1 /\ ReadWorked(1) /\ obs[1].fetches = 1
    /\ pc[2] = "idle"

(***************************************************************************)
(* C7: whenever the provider is called and answers with a status other     *)
(* than 200, a body that is not JSON, an empty array or JSON that is not   *)
(* an array, the response is 502 and carries no record.                    *)
(***************************************************************************)
\* the answers C7 is about
UpstreamFailure(resp) ==
    /\ resp.latency <= API_TIMEOUT
    /\ \/ resp.status # 200
       \/ ~resp.body.json
       \/ JType(resp.body.data) # "arr"
       \/ resp.body.data[2] = <<>>

C7_UpstreamFailureIs502 ==
    \A r \in Reqs :
        (obs[r].fetches = 1 /\ UpstreamFailure(obs[r].answer))
        => /\ Done(r)
           /\ result[r].status = 502
           /\ DOMAIN result[r].body = {"detail"}
           /\ obs[r].writes = 0

\* each of the four kinds of failing answer has been given in some run
C7_Witness ==
    \E r \in Reqs :
        /\ Done(r) /\ result[r].status = 502
        /\ obs[r].answer.status = 500
        /\ obs[r].answer.body.json /\ JType(obs[r].answer.body.data) = "arr"

(***************************************************************************)
(* C8: on the miss path the "today" endpoint is asked exactly when the     *)
(* calendar date parsed from date_str is the current UTC date; otherwise   *)
(* the "random" endpoint is.                                               *)
(***************************************************************************)
C8_TodayRouting ==
    [][\A r \in Reqs :
          (pc[r] = "fetch" /\ pc'[r] # "fetch")
          => /\ obs'[r].url \in {"today", "random"}
             /\ obs'[r].url = "today" <=> fromisoformat(date[r]) = UtcDate]_vars

\* the same date string routed to "random" before midnight and to "today" after
C8_Witness ==
    /\ date[1] = date[2]
    /\ obs[1].url = "random"
    /\ obs[2].url = "today"

(***************************************************************************)
(* C9: when the provider call times out, the response is 502               *)
(* (UpstreamError) and the provider is not called again.                   *)
(***************************************************************************)
C9_TimeoutIs502 ==
    \A r \in Reqs :
        (obs[r].fetches >= 1 /\ obs[r].answer.latency > API_TIMEOUT)
        => /\ Done(r)
           /\ result[r].status = 502
           /\ obs[r].fetches = 1

(***************************************************************************)
(* C10: every record returned to a caller or written to the store has a    *)
(* non-empty text, whatever the provider sent.                             *)
(***************************************************************************)
C10_TextNeverEmpty ==
    \A r \in Reqs :
        /\ (Done(r) /\ result[r].status = 200) => result[r].body.text # <<>>
        /\ (Done(r) /\ WriteWorked(r) /\ pc = [o \in Reqs |-> IF o = r THEN "done" ELSE "idle"])
               => hgetall(cache, rkey(date[r]))["text"] # <<>>

(***************************************************************************)
(* C11: on the miss path the author of the record is the provider's        *)
(* author trimmed, and "Unknown" whenever that field is missing, empty or  *)
(* blank; the author of a newly built record is never empty.               *)
(***************************************************************************)
Unknown == <<"U", "n", "k", "n", "o", "w", "n">>

C11_AuthorDefaultsToUnknown ==
    \A r \in Reqs :
        (Done(r) /\ obs[r].fetches = 1 /\ result[r].status = 200)
        => LET araw == RawField(obs[r].answer, "a")
           IN  /\ result[r].body.author =
                      IF araw = None \/ strip(araw) = <<>> THEN Unknown ELSE strip(araw)
               /\ result[r].body.author # <<>>

(***************************************************************************)
(* C12: write-once. Once a request has stored a valid record under a       *)
(* date's key and returned, no request that arrives afterwards changes     *)
(* the hash under that key, also when store reads fail now and then.       *)
(***************************************************************************)
\* request a stored a valid record and returned
StoredValid(a) ==
    /\ Done(a) /\ WriteWorked(a)
    /\ result[a].status = 200
    /\ ValidRecord(result[a].body)

C12_WriteOnce ==
    [][\A a, b \in Reqs :
          (/\ StoredValid(a)
           /\ a \in obs[b].before
           /\ date[b] = date[a]
           /\ pc'[b] # pc[b])
          => hgetall(cache', rkey(date[a])) = hgetall(cache, rkey(date[a]))]_vars

(***************************************************************************)
(* C13: two concurrent requests for the same date that both miss and both  *)
(* write. As stated: the record written second has the text and author of  *)
(* the record written first.                                               *)
(***************************************************************************)
\* neither request had finished when the other arrived
Concurrent(a, b) ==
    /\ a # b
    /\ pc[a] # "idle" /\ pc[b] # "idle"
    /\ a \notin obs[b].before /\ b \notin obs[a].before

\* request a missed (its read was answered), fetched, and its write was answered
MissedAndWrote(a) ==
    /\ Done(a)
    /\ ReadWorked(a)
    /\ obs[a].fetches = 1
    /\ WriteWorked(a)

\* the second record has the first's text and author
C13_OverwriteEquivalent ==
    \A a, b \in Reqs :
        (/\ Concurrent(a, b)
         /\ date[a] = date[b]
         /\ MissedAndWrote(a) /\ MissedAndWrote(b))
        => /\ result[a].body.text = result[b].body.text
           /\ result[a].body.author = result[b].body.author

(***************************************************************************)
(* C14: no single-flight. Two simultaneous misses for one key can both     *)
(* call the provider and both write; the store then holds exactly the      *)
(* record of the write that came last, and each caller is returned the     *)
(* record it fetched itself.                                               *)
(***************************************************************************)
C14_LastWriteWins ==
    [][/\ cache' # cache =>
            \E r \in Reqs : pc[r] = "store" /\ pc'[r] = "done" /\ ~obs'[r].writeErr
       /\ \A r \in Reqs :
            (pc[r] = "store" /\ pc'[r] = "done")
            => /\ result'[r].status = 200
               /\ result'[r].body.date = date[r]
               /\ result'[r].body.text = q[r].text
               /\ result'[r].body.author = q[r].author
               /\ ~obs'[r].writeErr =>
                      hgetall(cache', KeyPrefix \o date[r]) =
                          [text      |-> result'[r].body.text,
                           author    |-> result'[r].body.author,
                           source    |-> result'[r].body.source,
                           stored_at |-> result'[r].body.stored_at]]_vars

\* both requests missed, called the provider and wrote; the store holds the
\* record of request 1, which differs from what request 2 was returned
C14_Witness ==
    /\ Concurrent(1, 2)
    /\ date[1] = date[2]
    /\ MissedAndWrote(1) /\ MissedAndWrote(2)
    /\ obs[1].url # "none" /\ obs[2].url # "none"
    /\ hgetall(cache, rkey(date[1]))["text"] = result[1].body.text
    /\ result[2].status = 200
    /\ result[2].body.text # result[1].body.text

(***************************************************************************)
(* C15: within one request the steps come in order and once: one store     *)
(* read; then, only after a miss or a read error, at most one provider     *)
(* call; then, only after a provider call that succeeded, at most one      *)
(* store write. The provider is not called before the read has completed   *)
(* and no step is repeated.                                                *)
(***************************************************************************)
C15_StepsInOrderOnce ==
    [][\A r \in Reqs :
          /\ obs'[r].reads # obs[r].reads =>
                 /\ pc[r] = "read"
                 /\ obs[r].reads = 0 /\ obs[r].fetches = 0 /\ obs[r].writes = 0
                 /\ obs'[r].reads = 1 /\ obs'[r].fetches = 0 /\ obs'[r].writes = 0
                 /\ pc'[r] \in {"fetch", "done"}
                 /\ pc'[r] = "fetch" =>
                        \/ obs'[r].readErr
                        \/ ~ValidRecord(hgetall(cache, KeyPrefix \o date[r]))
          /\ obs'[r].fetches # obs[r].fetches =>
                 /\ pc[r] = "fetch"
                 /\ obs[r].reads = 1 /\ obs[r].fetches = 0 /\ obs[r].writes = 0
                 /\ obs'[r].reads = 1 /\ obs'[r].fetches = 1 /\ obs'[r].writes = 0
                 /\ pc'[r] \in {"store", "done"}
                 /\ pc'[r] = "store" =>
                        /\ obs'[r].answer.latency <= API_TIMEOUT
                        /\ obs'[r].answer.status = 200
          /\ obs'[r].writes # obs[r].writes =>
                 /\ pc[r] = "store"
                 /\ obs[r].reads = 1 /\ obs[r].fetches = 1 /\ obs[r].writes = 0
                 /\ obs'[r].reads = 1 /\ obs'[r].fetches = 1 /\ obs'[r].writes = 1
                 /\ pc'[r] = "done"
          /\ (pc[r] = "done" /\ pc'[r] = "done") => obs'[r] = obs[r]]_vars

\* a request whose read failed has called the provider once and written once
C15_Witness ==
    \E r \in Reqs :
        /\ Done(r)
        /\ obs[r].readErr
        /\ obs[r].reads = 1 /\ obs[r].fetches = 1 /\ obs[r].writes = 1

(***************************************************************************)
(* C16: when the provider call fails, the request writes nothing: the      *)
(* store is left as it was, the request ends there, and the response       *)
(* carries no record.                                                      *)
(***************************************************************************)
\* the provider call of this answer fails
FetchFails(resp) ==
    \/ resp.latency > API_TIMEOUT
    \/ UpstreamFailure(resp)
    \/ JType(resp.body.data[2][1]) # "obj"

C16_FailedFetchWritesNothing ==
    [][/\ \A r \in Reqs :
            (pc[r] = "fetch" /\ obs'[r].fetches = 1 /\ FetchFails(obs'[r].answer))
            => /\ cache' = cache
               /\ pc'[r] = "done"
               /\ obs'[r].writes = 0
               /\ result'[r].status # 200
               /\ DOMAIN result'[r].body = {"detail"}
       /\ (\A r \in Reqs : obs'[r].writes = 0) => cache' = cache0']_vars

\* a request whose provider call failed: the stored entry is the one the
\* store started with
C16_Witness ==
    \E r \in Reqs :
        /\ Done(r)
        /\ obs[r].fetches = 1 /\ obs[r].writes = 0
        /\ UpstreamFailure(obs[r].answer)
        /\ result[r].status = 502
        /\ cache0 # EmptyStore
        /\ cache = cache0

(***************************************************************************)
(* C17: on a hit the returned record has the requested date, the cached    *)
(* text and author, the cached source, or "zenquotes" when the cached      *)
(* mapping holds no usable (present, non-empty) source, and the stored     *)
(* stored_at when one is present.                                          *)
(***************************************************************************)
C17_HitRecordFields ==
    [][\A r \in Reqs :
          LET cached == hgetall(cache, KeyPrefix \o date[r])
          IN  (/\ pc[r] = "read" /\ pc'[r] = "done"
               /\ ~obs'[r].readErr
               /\ ValidRecord(cached))
              => /\ result'[r].status = 200
                 /\ result'[r].body.date = date[r]
                 /\ result'[r].body.text = cached["text"]
                 /\ result'[r].body.author = cached["author"]
                 /\ result'[r].body.source =
                        IF "source" \in DOMAIN cached /\ cached["source"] # <<>>
                        THEN cached["source"]
                        ELSE Zenquotes
                 /\ "stored_at" \in DOMAIN cached =>
                        result'[r].body.stored_at = cached["stored_at"]]_vars

(***************************************************************************)
(* C18: an answer with status 200 and a JSON non-empty array whose first   *)
(* element is not an object carrying the quote fields (null, a number, a   *)
(* string) is answered with 502, like every other upstream failure.        *)
(***************************************************************************)
\* status 200, in time, a non-empty JSON array whose first element is not an
\* object
MalformedItem(resp) ==
    /\ resp.latency <= API_TIMEOUT
    /\ resp.status = 200
    /\ resp.body.json
    /\ JType(resp.body.data) = "arr"
    /\ resp.body.data[2] # <<>>
    /\ JType(resp.body.data[2][1]) # "obj"

C18_MalformedItemIs502 ==
    \A r \in Reqs :
        (obs[r].fetches = 1 /\ MalformedItem(obs[r].answer))
        => /\ Done(r)
           /\ result[r].status = 502

(***************************************************************************)
(* C19: the key is "quote:" followed by the date string as given, so       *)
(* distinct date strings have distinct keys; a request reads and writes    *)
(* only the entry under its own key: the entries of every other date       *)
(* string, one that denotes the same calendar date included, are left      *)
(* unchanged and are never served for it.                                  *)
(***************************************************************************)
\* the date strings that reach rkey
ValidDateStrs == {d \in DateStrs : fromisoformat(d) # <<>>}

C19_OwnKeyOnly ==
    [][/\ \A d \in ValidDateStrs :
            rkey(d) = <<"q", "u", "o", "t", "e", ":">> \o d
       /\ \A d1, d2 \in ValidDateStrs : d1 # d2 => rkey(d1) # rkey(d2)
       /\ \A r \in Reqs :
            pc'[r] # pc[r] =>
                LET own == KeyPrefix \o date'[r]
                IN  /\ \A k \in (DOMAIN cache \cup DOMAIN cache') \ {own} :
                          /\ k \in DOMAIN cache /\ k \in DOMAIN cache'
                          /\ cache'[k] = cache[k]
                    /\ (pc[r] = "read" /\ ~obs'[r].readErr) =>
                          IF own \in DOMAIN cache /\ ValidRecord(cache[own])
                          THEN /\ pc'[r] = "done"
                               /\ result'[r].body.text = cache[own]["text"]
                               /\ result'[r].body.author = cache[own]["author"]
                          ELSE pc'[r] = "fetch"
                    /\ (pc[r] = "store" /\ ~obs'[r].writeErr) =>
                          /\ own \in DOMAIN cache'
                          /\ cache'[own]["text"] = q[r].text]_vars

\* a request for "2024-01-01T00:00" missed and wrote its own entry while the
\* valid entry of "2024-01-01" stayed as it was
C19_Witness ==
    \E r \in Reqs :
        /\ Done(r)
        /\ date[r] = Date1T
        /\ ReadWorked(r) /\ obs[r].fetches = 1 /\ WriteWorked(r)
        /\ rkey(Date1) \in DOMAIN cache0
        /\ ValidRecord(cache0[rkey(Date1)])
        /\ cache[rkey(Date1)] = cache0[rkey(Date1)]
        /\ rkey(Date1T) \in DOMAIN cache
        /\ cache[rkey(Date1T)]["text"] # cache[rkey(Date1)]["text"]

====
